---- MODULE Spec2Model ----
(***************************************************************************)
(* Model of the membership site in app.py: the Users, Subscriptions and    *)
(* Payments tables, the signed-cookie session of each browser, and the     *)
(* request handlers that read and write them.  A handler is split into one *)
(* action per store round trip: every "await session_db.execute/commit"    *)
(* is a point where another request may run, so a request's statements up  *)
(* to and including a commit form one step, and the SELECT that precedes   *)
(* them is a step of its own.  req[c] is the request browser c has in      *)
(* flight, or, at pc "done", the request it made last with the response it *)
(* got.                                                                    *)
(*                                                                         *)
(* Rows are kept in sequences indexed by their IDENTITY(1,1) key; no       *)
(* handler deletes a row, so the key of a row is its position.  Amounts    *)
(* are DECIMAL(10,2) values counted in cents.  Emails are numbers: 0 is    *)
(* the literal 'admin' of populate_dummy_data.                             *)
(*                                                                         *)
(* The list pages read Events and Consultants through redis.  A column     *)
(* value is a record of its Python type and an integer: for a str the      *)
(* integer names the text, for a datetime it is the instant.  Time passes  *)
(* in steps of TickSeconds, at any point between two steps of a request.   *)
(***************************************************************************)
EXTENDS Integers, Sequences, FiniteSets, TLC

VARIABLES users, subs, payments, session, req, events, cache, changed

\* the Events table, the redis keys, and the time since Events was written
lists == <<events, cache, changed>>

vars == <<users, subs, payments, session, req, lists>>

---------------------------------------------------------------------------
(* Bounds of the model *)

\* users seeded by populate_dummy_data (the code seeds 50)
NumSeedUsers == 1
\* emails that have no user row at start-up
NumNewEmails == 1
\* distinct external ids a provider may return
MaxExtId == 2
\* cap on rows of the Payments ledger
MaxPayments == 2
\* events seeded by populate_dummy_data (the code seeds 20)
NumEvents == 2
\* consultants seeded by populate_dummy_data (the code seeds 5)
NumConsultants == 1
\* seconds that pass in one step of the clock
TickSeconds == 150

(* Program constants *)

PaidAmount == 9999
FreeAmount == 0
RefundAmount == 0

AdminEmail == 0

\* the status handle_exceptions answers with
ErrorStatus == 500

\* setex(..., 300, ...) of home and list_events, setex(..., 600, ...) of
\* list_consultants
EventsTtl == 300
ConsultantsTtl == 600
\* SELECT TOP 5 of home
HomeTop == 5

Clients == {"c1", "c2"}

\* oauth_callback dispatches on four names; the four branches are the same
\* code over a different column, and the model runs two of them
Providers == {"google", "microsoft"}

\* the seeded users have the emails 1..NumSeedUsers
NewEmails == (NumSeedUsers + 1)..(NumSeedUsers + NumNewEmails)

ExtIds == 1..MaxExtId
\* NULL in an external-id column
NullId == 0

UserActions == {"upgrade", "cancel", "other"}
AdminActions == {"deactivate", "activate", "refund", "other"}

---------------------------------------------------------------------------
(* Rows *)

NoIds == [p \in Providers |-> NullId]

UserRow(em, role, ids) == [email |-> em, role |-> role, ids |-> ids]

SubRow(uid, level, amount, active) ==
    [uid |-> uid, level |-> level, amount |-> amount, active |-> active]

PaymentRow(uid, amount) == [uid |-> uid, amount |-> amount]

\* the 'Free', 0.00, 1 row of register and populate_dummy_data
FreeSub(uid) == SubRow(uid, "Free", FreeAmount, TRUE)

SeedUsers == [i \in 1..NumSeedUsers |-> UserRow(i, "Reader", NoIds)]

---------------------------------------------------------------------------
(* Session helpers *)

NoSession == [user_id |-> 0, email |-> -1, role |-> "none"]

current_user(s) == IF s.user_id = 0 THEN NoSession ELSE s

HasUser(s) == current_user(s) # NoSession

user_is_admin_AnySession(s) == HasUser(s)

user_is_admin(s) == HasUser(s) /\ current_user(s).role = "Admin"

login_user(user_id, email, role) ==
    [user_id |-> user_id, email |-> email, role |-> role]

logout_user == NoSession

---------------------------------------------------------------------------
(* Store queries *)

\* SELECT * FROM Users WHERE Email=:em, fetchone(): key of the row, 0 if none
UserByEmail(us, em) ==
    IF \E i \in 1..Len(us) : us[i].email = em
    THEN CHOOSE i \in 1..Len(us) :
            /\ us[i].email = em
            /\ \A j \in 1..Len(us) : us[j].email = em => i <= j
    ELSE 0

EmailIsFree_NoConstraint(us, em) == TRUE

\* Email NVARCHAR(255) NOT NULL UNIQUE: an INSERT of a present email fails
EmailIsFree(us, em) == \A i \in 1..Len(us) : us[i].email # em

\* SELECT * FROM Subscriptions WHERE UserID=:uid, fetchone(): key of the
\* first row in key order, 0 if none
SubByUser(sb, uid) ==
    IF \E i \in 1..Len(sb) : sb[i].uid = uid
    THEN CHOOSE i \in 1..Len(sb) :
            /\ sb[i].uid = uid
            /\ \A j \in 1..Len(sb) : sb[j].uid = uid => i <= j
    ELSE 0

validate_subscription_OneError(sb, user_id) ==
    LET sub == SubByUser(sb, user_id)
    IN  IF sub = 0 \/ ~ sb[sub].active THEN "NoSubscription" ELSE "ok"

validate_subscription_IgnoresActive(sb, user_id) ==
    IF SubByUser(sb, user_id) = 0 THEN "NoSubscription" ELSE "ok"

\* outcome of validate_subscription: "ok" when it returns, else the error
validate_subscription(sb, user_id) ==
    LET sub == SubByUser(sb, user_id)
    IN  IF sub = 0 THEN "NoSubscription"
        ELSE IF ~ sb[sub].active THEN "InactiveSubscription"
        ELSE "ok"

---------------------------------------------------------------------------
(* Column values, the Events and Consultants tables *)

PyInt(n) == [type |-> "int", val |-> n]
PyStr(t) == [type |-> "str", val |-> t]
PyBool(b) == [type |-> "bool", val |-> IF b THEN 1 ELSE 0]
PyDateTime(d) == [type |-> "datetime", val |-> d]

\* texts: the titles an event has had, and one text for every other column
OldTitle == 1
NewTitle == 2
SomeText == 3

\* CREATE TABLE Events, and the rows populate_dummy_data inserts: event i
\* takes place at instant i; IsPublic and CreatedDate take their defaults
EventRow(i, title) ==
    [EventID |-> PyInt(i), Title |-> PyStr(title),
     EventDateTime |-> PyDateTime(i), Location |-> PyStr(SomeText),
     IsPublic |-> PyBool(TRUE), CreatedDate |-> PyDateTime(0),
     Description |-> PyStr(SomeText)]

SeedEvents == [i \in 1..NumEvents |-> EventRow(i, OldTitle)]

\* SELECT c.*, u.FirstName, u.LastName, u.City FROM Consultants c JOIN
\* Users u: the rows populate_dummy_data inserts for seeded users; no
\* handler writes either table's columns of the join
ConsultantRow(i) ==
    [ConsultantID |-> PyInt(i), UserID |-> PyInt(i + 1),
     Organization |-> PyStr(SomeText), Summary |-> PyStr(SomeText),
     FirstName |-> PyStr(SomeText), LastName |-> PyStr(SomeText),
     City |-> PyStr(SomeText)]

SeedConsultants == [i \in 1..NumConsultants |-> ConsultantRow(i)]

\* changed before any write of Events
NotChanged == -1

\* the list pages and their redis keys
Endpoints == {"home", "list_events", "list_consultants"}

CacheKey(ep) ==
    CASE ep = "home" -> "homepage_events"
      [] ep = "list_events" -> "events_list"
      [] ep = "list_consultants" -> "consultants_list"

CacheKeys == {CacheKey(ep) : ep \in Endpoints}

\* a key that redis does not hold: get returns None.  An entry is its
\* value and the seconds it has left.
NoEntry == [val |-> <<>>, ttl |-> 0]

---------------------------------------------------------------------------
(* Requests and responses *)

\* prev and prevoid of a callback: the provider and external id of the
\* callback this browser completed just before it for the same email
\* data and hit of a list page: the list handed to the template, and
\* whether it came from the cache
Idle == [pc |-> "idle", kind |-> "none", provider |-> "none", oid |-> 0,
         email |-> -1, uid |-> 0, role |-> "none", sid |-> 0,
         action |-> "none", outcome |-> "none", prev |-> "none",
         prevoid |-> 0, data |-> <<>>, hit |-> FALSE]

\* no request of browser c is in flight
Ready(c) == req[c].pc \in {"idle", "done"}

\* what the browser keeps of a request that has ended
Response(r, outcome) ==
    [r EXCEPT !.pc = "done", !.outcome = outcome, !.role = "none",
              !.sid = 0, !.action = "none"]

\* the request ends: its response reaches the browser
Finish(c, outcome, r) == req' = [req EXCEPT ![c] = Response(r, outcome)]

\* outcomes of a callback that got past the login/register merge
Merged == {"redirect_dashboard", "NoSubscription", "InactiveSubscription"}

\* the outcomes that are an exception raised out of a handler
Errors == {"OAuthError", "NoSubscription", "InactiveSubscription",
           "StoreError", "MissingField", "UserExists", "Unauthorized",
           "MissingSubscriptionId", "SubscriptionNotFound", "UnknownAction",
           "ResponseError"}

handle_exceptions_MapsUnauthorized(outcome) ==
    IF outcome = "Unauthorized" THEN 403
    ELSE IF outcome \in Errors THEN ErrorStatus
    ELSE IF outcome \in {"page", "none"} THEN 200
    ELSE 302

\* the status of a response: every exception goes to the one error page,
\* a redirect is 302, a rendered page 200
handle_exceptions(outcome) ==
    IF outcome \in Errors THEN ErrorStatus
    ELSE IF outcome \in {"page", "none"} THEN 200
    ELSE 302

Init ==
    /\ users = <<UserRow(AdminEmail, "Admin", NoIds)>> \o SeedUsers
    /\ subs = [i \in 1..NumSeedUsers |-> FreeSub(i + 1)]
    /\ payments = <<>>
    /\ session = [c \in Clients |-> NoSession]
    /\ req = [c \in Clients |-> Idle]
    /\ events = SeedEvents
    /\ cache = [k \in CacheKeys |-> NoEntry]
    /\ changed = NotChanged

---------------------------------------------------------------------------
(* GET /auth/<provider>/callback *)

CallbackReq(c, p, oid, em) ==
    LET last == req[c]
        follows == /\ last.pc = "done"
                   /\ last.kind = "callback"
                   /\ last.outcome \in Merged
                   /\ last.email = em
    IN  [Idle EXCEPT !.kind = "callback", !.provider = p, !.oid = oid,
                     !.email = em,
                     !.prev = IF follows THEN last.provider ELSE "none",
                     !.prevoid = IF follows THEN last.oid ELSE 0]

\* the code is missing, the provider is unknown or the provider rejects the
\* code: the handler raises before it reaches the store
OAuthReject(c) ==
    /\ Ready(c)
    /\ Finish(c, "OAuthError", [Idle EXCEPT !.kind = "callback"])
    /\ UNCHANGED <<users, subs, payments, session, lists>>

RoleOf_AlwaysReader(us, row) == "Reader"

\* role = row.RoleType
RoleOf(us, row) == us[row].role

\* the profile (oid, em) came back from provider p; SELECT the user by
\* email.  A row whose column for p is set needs no write, so login_user
\* runs in the same step.
OAuthSelect(c, p, oid, em) ==
    /\ Ready(c)
    /\ LET row == UserByEmail(users, em)
           r == CallbackReq(c, p, oid, em)
       IN  IF row # 0
           THEN LET found == [r EXCEPT !.uid = row,
                                          !.role = RoleOf(users, row)]
                IN  IF users[row].ids[p] = NullId
                    THEN /\ req' = [req EXCEPT ![c] =
                                      [found EXCEPT !.pc = "cb_update"]]
                         /\ UNCHANGED session
                    ELSE /\ req' = [req EXCEPT ![c] =
                                      [found EXCEPT !.pc = "cb_gate"]]
                         /\ session' = [session EXCEPT ![c] =
                                          login_user(row, em, found.role)]
           ELSE /\ req' = [req EXCEPT ![c] = [r EXCEPT !.pc = "cb_insert"]]
                /\ UNCHANGED session
    /\ UNCHANGED <<users, subs, payments, lists>>

\* UPDATE Users SET <p>_id=:oid WHERE UserID=:uid
LinkProvider(us, uid, p, oid) == [us EXCEPT ![uid].ids[p] = oid]

\* the UPDATE and its commit, then login_user with the role read earlier
OAuthUpdate(c) ==
    /\ req[c].pc = "cb_update"
    /\ LET r == req[c]
       IN  /\ users' = LinkProvider(users, r.uid, r.provider, r.oid)
           /\ session' = [session EXCEPT ![c] =
                            login_user(r.uid, r.email, r.role)]
           /\ req' = [req EXCEPT ![c] = [r EXCEPT !.pc = "cb_gate"]]
    /\ UNCHANGED <<subs, payments, lists>>

OAuthUserRow_NoExternalId(p, oid, em) == UserRow(em, "Reader", NoIds)

\* the row a first OAuth login inserts
OAuthUserRow(p, oid, em) ==
    UserRow(em, "Reader", [NoIds EXCEPT ![p] = oid])

OAuthInsert_AlsoSubscribes(c) ==
    /\ req[c].pc = "cb_insert"
    /\ LET r == req[c]
       IN  IF EmailIsFree(users, r.email)
           THEN /\ users' = Append(users,
                                   OAuthUserRow(r.provider, r.oid, r.email))
                /\ subs' = Append(subs, FreeSub(Len(users) + 1))
                /\ session' = [session EXCEPT ![c] =
                                 login_user(Len(users) + 1, r.email, "Reader")]
                /\ req' = [req EXCEPT ![c] =
                             [r EXCEPT !.pc = "cb_gate",
                                       !.uid = Len(users) + 1,
                                       !.role = "Reader"]]
           ELSE /\ Finish(c, "StoreError", r)
                /\ UNCHANGED <<users, subs, session>>
    /\ UNCHANGED <<payments, lists>>

\* the INSERT and its commit, then login_user as Reader; the INSERT fails
\* when another request has inserted the email since the SELECT
OAuthInsert(c) ==
    /\ req[c].pc = "cb_insert"
    /\ LET r == req[c]
       IN  IF EmailIsFree(users, r.email)
           THEN /\ users' = Append(users,
                                   OAuthUserRow(r.provider, r.oid, r.email))
                /\ session' = [session EXCEPT ![c] =
                                 login_user(Len(users) + 1, r.email, "Reader")]
                /\ req' = [req EXCEPT ![c] =
                             [r EXCEPT !.pc = "cb_gate",
                                       !.uid = Len(users) + 1,
                                       !.role = "Reader"]]
           ELSE /\ Finish(c, "StoreError", r)
                /\ UNCHANGED <<users, session>>
    /\ UNCHANGED <<subs, payments, lists>>

OAuthGate_LogsOutOnFailure(c) ==
    /\ req[c].pc = "cb_gate"
    /\ LET v == validate_subscription(subs, req[c].uid)
       IN  /\ Finish(c, IF v = "ok" THEN "redirect_dashboard" ELSE v, req[c])
           /\ session' = [session EXCEPT ![c] =
                            IF v = "ok" THEN @ ELSE logout_user]
    /\ UNCHANGED <<users, subs, payments, lists>>

\* validate_subscription, then the redirect to the dashboard
OAuthGate(c) ==
    /\ req[c].pc = "cb_gate"
    /\ LET v == validate_subscription(subs, req[c].uid)
       IN  Finish(c, IF v = "ok" THEN "redirect_dashboard" ELSE v, req[c])
    /\ UNCHANGED <<users, subs, payments, session, lists>>

---------------------------------------------------------------------------
(* POST /register *)

RegisterReq(em) == [Idle EXCEPT !.kind = "register", !.email = em]

\* a required form field is empty
RegisterMissingField(c) ==
    /\ Ready(c)
    /\ Finish(c, "MissingField", [Idle EXCEPT !.kind = "register"])
    /\ UNCHANGED <<users, subs, payments, session, lists>>

RegisterSelect_NoLookup(c, em) ==
    /\ Ready(c)
    /\ req' = [req EXCEPT ![c] = [RegisterReq(em) EXCEPT !.pc = "reg_user"]]
    /\ UNCHANGED <<users, subs, payments, session, lists>>

\* SELECT UserID FROM Users WHERE Email=:e
RegisterSelect(c, em) ==
    /\ Ready(c)
    /\ IF UserByEmail(users, em) # 0
       THEN Finish(c, "UserExists", RegisterReq(em))
       ELSE req' = [req EXCEPT ![c] =
                      [RegisterReq(em) EXCEPT !.pc = "reg_user"]]
    /\ UNCHANGED <<users, subs, payments, session, lists>>

\* INSERT INTO Users ... OUTPUT inserted.UserID, and its commit
RegisterInsertUser(c) ==
    /\ req[c].pc = "reg_user"
    /\ LET r == req[c]
       IN  IF EmailIsFree(users, r.email)
           THEN /\ users' = Append(users, UserRow(r.email, "Reader", NoIds))
                /\ req' = [req EXCEPT ![c] =
                             [r EXCEPT !.pc = "reg_sub",
                                       !.uid = Len(users) + 1]]
           ELSE /\ Finish(c, "StoreError", r)
                /\ UNCHANGED users
    /\ UNCHANGED <<subs, payments, session, lists>>

RegisterInsertSub_SessionUser(c) ==
    /\ req[c].pc = "reg_sub"
    /\ LET r == req[c]
           uid == IF HasUser(session[c]) THEN session[c].user_id ELSE r.uid
       IN  /\ subs' = Append(subs, FreeSub(uid))
           /\ session' = [session EXCEPT ![c] =
                            login_user(r.uid, r.email, "Reader")]
           /\ Finish(c, "redirect_dashboard", r)
    /\ UNCHANGED <<users, payments, lists>>

\* INSERT INTO Subscriptions for the new user id, its commit, login_user
RegisterInsertSub(c) ==
    /\ req[c].pc = "reg_sub"
    /\ LET r == req[c]
       IN  /\ subs' = Append(subs, FreeSub(r.uid))
           /\ session' = [session EXCEPT ![c] =
                            login_user(r.uid, r.email, "Reader")]
           /\ Finish(c, "redirect_dashboard", r)
    /\ UNCHANGED <<users, payments, lists>>

\* the INSERT INTO Subscriptions or its commit raises (the store is
\* unreachable, the statement times out): the exception leaves the handler
\* after the user row was committed, and nothing undoes that commit
RegisterInsertSubFails(c) ==
    /\ req[c].pc = "reg_sub"
    /\ Finish(c, "StoreError", req[c])
    /\ UNCHANGED <<users, subs, payments, session, lists>>

---------------------------------------------------------------------------
(* GET /logout, GET /dashboard *)

do_logout(c) ==
    /\ Ready(c)
    /\ session' = [session EXCEPT ![c] = logout_user]
    /\ Finish(c, "redirect_home", [Idle EXCEPT !.kind = "logout"])
    /\ UNCHANGED <<users, subs, payments, lists>>

\* whether the handler renders the page rather than redirecting to login
DashboardServes(sb, s) == HasUser(s)

dashboard(c) ==
    /\ Ready(c)
    /\ IF DashboardServes(subs, session[c])
       THEN Finish(c, "page", [Idle EXCEPT !.kind = "dashboard",
                                           !.uid = session[c].user_id])
       ELSE Finish(c, "redirect_login", [Idle EXCEPT !.kind = "dashboard"])
    /\ UNCHANGED <<users, subs, payments, session, lists>>

---------------------------------------------------------------------------
(* POST /my_subscription *)

UserUpdate_CancelZeroesAmount(row, action) ==
    IF action = "upgrade"
    THEN [row EXCEPT !.level = "Paid", !.amount = PaidAmount, !.active = TRUE]
    ELSE IF action = "cancel"
    THEN [row EXCEPT !.amount = FreeAmount, !.active = FALSE]
    ELSE row

UserUpdate_KeepsLevel(row, action) ==
    IF action = "upgrade"
    THEN [row EXCEPT !.amount = PaidAmount, !.active = TRUE]
    ELSE IF action = "cancel"
    THEN [row EXCEPT !.active = FALSE]
    ELSE row

\* the UPDATE Subscriptions statement of each posted action
UserUpdate(row, action) ==
    IF action = "upgrade"
    THEN [row EXCEPT !.level = "Paid", !.amount = PaidAmount, !.active = TRUE]
    ELSE IF action = "cancel"
    THEN [row EXCEPT !.active = FALSE]
    ELSE row

UserPayments_RewritesLedger(pay, uid, action) ==
    IF action = "upgrade" THEN <<PaymentRow(uid, PaidAmount)>>
    ELSE pay

\* the INSERT INTO Payments statement of 'upgrade'
UserPayments(pay, uid, action) ==
    IF action = "upgrade" THEN Append(pay, PaymentRow(uid, PaidAmount))
    ELSE pay

\* current_user(), then SELECT * FROM Subscriptions WHERE UserID=:u
MySubSelect(c, action) ==
    /\ Ready(c)
    /\ IF ~ HasUser(session[c])
       THEN Finish(c, "redirect_login",
                   [Idle EXCEPT !.kind = "my_subscription"])
       ELSE LET uid == current_user(session[c]).user_id
                sub == SubByUser(subs, uid)
                r == [Idle EXCEPT !.kind = "my_subscription", !.uid = uid,
                                  !.sid = sub, !.action = action]
            IN  IF sub = 0
                THEN Finish(c, "NoSubscription", r)
                ELSE req' = [req EXCEPT ![c] = [r EXCEPT !.pc = "sub_write"]]
    /\ UNCHANGED <<users, subs, payments, session, lists>>

MySubWrite_FailsOnConflict(c) ==
    /\ req[c].pc = "sub_write"
    /\ LET r == req[c]
       IN  IF \E d \in Clients \ {c} :
                 req[d].pc = "adm_write" /\ req[d].sid = r.sid
           THEN /\ Finish(c, "StoreError", r)
                /\ UNCHANGED <<payments, subs>>
           ELSE /\ r.action = "upgrade" => Len(payments) < MaxPayments
                /\ payments' = UserPayments(payments, r.uid, r.action)
                /\ subs' = [subs EXCEPT ![r.sid] = UserUpdate(@, r.action)]
                /\ Finish(c, "redirect_my_subscription", r)
    /\ UNCHANGED <<users, session, lists>>

\* the statements of the posted action and the commit
MySubWrite(c) ==
    /\ req[c].pc = "sub_write"
    /\ LET r == req[c]
       IN  /\ r.action = "upgrade" => Len(payments) < MaxPayments
           /\ payments' = UserPayments(payments, r.uid, r.action)
           /\ subs' = [subs EXCEPT ![r.sid] = UserUpdate(@, r.action)]
           /\ Finish(c, "redirect_my_subscription", r)
    /\ UNCHANGED <<users, session, lists>>

---------------------------------------------------------------------------
(* POST /admin/subscriptions *)

KnownAdminActions == {"deactivate", "activate", "refund"}

AdminUpdate_RefundKeepsActive(row, action) ==
    IF action = "deactivate" THEN [row EXCEPT !.active = FALSE]
    ELSE IF action = "activate" THEN [row EXCEPT !.active = TRUE]
    ELSE IF action = "refund" THEN [row EXCEPT !.amount = RefundAmount]
    ELSE row

AdminUpdate_RefundResetsLevel(row, action) ==
    IF action = "deactivate" THEN [row EXCEPT !.active = FALSE]
    ELSE IF action = "activate" THEN [row EXCEPT !.active = TRUE]
    ELSE IF action = "refund"
    THEN [row EXCEPT !.level = "Free", !.amount = RefundAmount,
                     !.active = FALSE]
    ELSE row

\* the UPDATE Subscriptions statement of each admin action
AdminUpdate(row, action) ==
    IF action = "deactivate" THEN [row EXCEPT !.active = FALSE]
    ELSE IF action = "activate" THEN [row EXCEPT !.active = TRUE]
    ELSE IF action = "refund"
    THEN [row EXCEPT !.amount = RefundAmount, !.active = FALSE]
    ELSE row

\* user_is_admin(), the subscription_id field, then
\* SELECT * FROM Subscriptions WHERE SubscriptionID=:sid; sid 0 stands for
\* an absent field
AdminSelect(c, sid, action) ==
    /\ Ready(c)
    /\ LET r == [Idle EXCEPT !.kind = "admin_subscriptions", !.sid = sid,
                             !.action = action]
       IN  IF ~ user_is_admin(session[c])
           THEN Finish(c, "Unauthorized",
                       [Idle EXCEPT !.kind = "admin_subscriptions"])
           ELSE IF sid = 0
           THEN Finish(c, "MissingSubscriptionId", r)
           ELSE IF sid \notin 1..Len(subs)
           THEN Finish(c, "SubscriptionNotFound", r)
           ELSE req' = [req EXCEPT ![c] = [r EXCEPT !.pc = "adm_write"]]
    /\ UNCHANGED <<users, subs, payments, session, lists>>

\* GET /admin, GET /admin/users, GET /admin/subscriptions
AdminPages == {"admin_portal", "admin_list_users", "admin_subscriptions_get"}

\* user_is_admin(), then the page (the two lists after a SELECT).  The
\* handlers return render_template_string(...) without awaiting it: whether
\* the framework renders the value or rejects it is outside this program,
\* and the model allows both.
AdminGet(c, page) ==
    /\ Ready(c)
    /\ \E rendered \in {"page", "ResponseError"} :
          Finish(c, IF user_is_admin(session[c]) THEN rendered
                    ELSE "Unauthorized",
                 [Idle EXCEPT !.kind = page])
    /\ UNCHANGED <<users, subs, payments, session, lists>>

\* the statement of the action and the commit, or 'Unknown action'
AdminWrite(c) ==
    /\ req[c].pc = "adm_write"
    /\ LET r == req[c]
       IN  IF r.action \in KnownAdminActions
           THEN /\ subs' = [subs EXCEPT ![r.sid] = AdminUpdate(@, r.action)]
                /\ Finish(c, "redirect_admin_subscriptions", r)
           ELSE /\ Finish(c, "UnknownAction", r)
                /\ UNCHANGED subs
    /\ UNCHANGED <<users, payments, session, lists>>

---------------------------------------------------------------------------
(* GET /, GET /events, GET /consultants: the lists read through redis *)

\* str(datetime) and datetime.fromisoformat: the text of instant d
DateText(d) == 1000 + d
fromisoformat(t) == t - 1000

\* json.dumps(rows, default=str): a datetime is not serializable and goes
\* through str; the other column types have a JSON form
ToJson(v) ==
    CASE v.type = "int" -> [type |-> "number", val |-> v.val]
      [] v.type = "str" -> [type |-> "string", val |-> v.val]
      [] v.type = "bool" -> [type |-> "boolean", val |-> v.val]
      [] v.type = "datetime" -> [type |-> "string", val |-> DateText(v.val)]

json_dumps(rows) ==
    [i \in 1..Len(rows) |-> [f \in DOMAIN rows[i] |-> ToJson(rows[i][f])]]

FromJson(j) ==
    CASE j.type = "number" -> PyInt(j.val)
      [] j.type = "string" -> PyStr(j.val)
      [] j.type = "boolean" -> PyBool(j.val = 1)

json_loads(text) ==
    [i \in 1..Len(text) |-> [f \in DOMAIN text[i] |-> FromJson(text[i][f])]]

\* for e in events: if isinstance(e["EventDateTime"], str): fromisoformat
ParseEventDateTime(list) ==
    [i \in 1..Len(list) |->
        IF list[i].EventDateTime.type = "str"
        THEN [list[i] EXCEPT !.EventDateTime =
                                PyDateTime(fromisoformat(@.val))]
        ELSE list[i]]

RECURSIVE OrderByEventDateTimeDesc(_)
\* ORDER BY EventDateTime DESC
OrderByEventDateTimeDesc(rows) ==
    IF rows = <<>> THEN <<>>
    ELSE LET m == CHOOSE i \in 1..Len(rows) :
                     \A j \in 1..Len(rows) :
                        /\ rows[j].EventDateTime.val <= rows[i].EventDateTime.val
                        /\ rows[j].EventDateTime.val = rows[i].EventDateTime.val
                           => i <= j
             rest == [k \in 1..(Len(rows) - 1) |->
                        IF k < m THEN rows[k] ELSE rows[k + 1]]
         IN  <<rows[m]>> \o OrderByEventDateTimeDesc(rest)

\* SELECT TOP n
Top(n, rows) == SubSeq(rows, 1, IF Len(rows) < n THEN Len(rows) ELSE n)

Ttl_EventsTtlForAll(ep) == EventsTtl

\* the second argument of the endpoint's setex
Ttl(ep) == IF ep = "list_consultants" THEN ConsultantsTtl ELSE EventsTtl

\* the SELECT of the endpoint, as [dict(x) for x in r.mappings().all()]
Query(ep, ev) ==
    CASE ep = "home" -> Top(HomeTop, OrderByEventDateTimeDesc(ev))
      [] ep = "list_events" -> OrderByEventDateTimeDesc(ev)
      [] ep = "list_consultants" -> SeedConsultants

\* what the handler does to the list before it renders it
Prepare(ep, list) ==
    IF ep = "list_consultants" THEN list ELSE ParseEventDateTime(list)

\* redis_client.get(key); on a hit json.loads and the page
ListGet(c, ep) ==
    /\ Ready(c)
    /\ LET e == cache[CacheKey(ep)]
           r == [Idle EXCEPT !.kind = ep]
       IN  IF e # NoEntry
           THEN Finish(c, "page",
                       [r EXCEPT !.data = Prepare(ep, json_loads(e.val)),
                                 !.hit = TRUE])
           ELSE req' = [req EXCEPT ![c] = [r EXCEPT !.pc = "ls_select"]]
    /\ UNCHANGED <<users, subs, payments, session, lists>>

\* on a miss, the SELECT
ListSelect(c) ==
    /\ req[c].pc = "ls_select"
    /\ LET r == req[c]
       IN  req' = [req EXCEPT ![c] = [r EXCEPT !.pc = "ls_setex",
                                               !.data = Query(r.kind, events)]]
    /\ UNCHANGED <<users, subs, payments, session, lists>>

\* redis_client.setex(key, ttl, json.dumps(list, default=str)), the page
ListSetex(c) ==
    /\ req[c].pc = "ls_setex"
    /\ LET r == req[c]
       IN  /\ cache' = [cache EXCEPT ![CacheKey(r.kind)] =
                          [val |-> json_dumps(r.data), ttl |-> Ttl(r.kind)]]
           /\ Finish(c, "page", [r EXCEPT !.data = Prepare(r.kind, r.data)])
    /\ UNCHANGED <<users, subs, payments, session, events, changed>>

\* ages above every TTL are not told apart
AgeCap == ConsultantsTtl + 2 * TickSeconds

\* time passes: redis counts the keys down and drops those that expire
Tick ==
    /\ cache' = [k \in CacheKeys |->
                    IF cache[k].ttl > TickSeconds
                    THEN [cache[k] EXCEPT !.ttl = @ - TickSeconds]
                    ELSE NoEntry]
    /\ changed' = IF changed = NotChanged THEN NotChanged
                  ELSE IF changed + TickSeconds > AgeCap THEN AgeCap
                  ELSE changed + TickSeconds
    /\ UNCHANGED <<users, subs, payments, session, req, events>>

\* no handler writes Events; another client of the database retitles the
\* first event, once
ExternalWrite ==
    /\ changed = NotChanged
    /\ events' = [events EXCEPT ![1].Title = PyStr(NewTitle)]
    /\ changed' = 0
    /\ UNCHANGED <<users, subs, payments, session, req, cache>>

---------------------------------------------------------------------------
(* Specifications *)

\* the administrator, a seeded user and an email with no user row at first
SiteEmails == {AdminEmail, 1, NumSeedUsers + 1}

\* the handlers of identity, subscriptions and the admin console, one
\* browser at a time
Next ==
    \E c \in {"c1"} :
        \/ OAuthReject(c)
        \/ \E em \in SiteEmails : OAuthSelect(c, "google", 1, em)
        \/ OAuthUpdate(c)
        \/ OAuthInsert(c)
        \/ OAuthGate(c)
        \/ RegisterMissingField(c)
        \/ \E em \in SiteEmails : RegisterSelect(c, em)
        \/ RegisterInsertUser(c)
        \/ RegisterInsertSub(c)
        \/ do_logout(c)
        \/ dashboard(c)
        \/ \E a \in UserActions : MySubSelect(c, a)
        \/ MySubWrite(c)
        \/ \E sid \in 0..(Len(subs) + 1), a \in AdminActions :
              AdminSelect(c, sid, a)
        \/ AdminWrite(c)
        \/ \E page \in AdminPages : AdminGet(c, page)

Spec == Init /\ [][Next]_vars

\* the email of the administrator and one that has no user row at first
LoginEmails == {AdminEmail, NumSeedUsers + 1}

\* login, registration and logout of one browser, over the providers and
\* the external ids they may return
NextLogin ==
    \E c \in {"c1"} :
        \/ OAuthReject(c)
        \/ \E p \in Providers, oid \in ExtIds, em \in LoginEmails :
              OAuthSelect(c, p, oid, em)
        \/ OAuthUpdate(c)
        \/ OAuthInsert(c)
        \/ OAuthGate(c)
        \/ RegisterMissingField(c)
        \/ \E em \in LoginEmails : RegisterSelect(c, em)
        \/ RegisterInsertUser(c)
        \/ RegisterInsertSub(c)
        \/ do_logout(c)
        \/ dashboard(c)

SpecLogin == Init /\ [][NextLogin]_vars

\* concurrent registrations and logins of two browsers, over the providers
NextIdentity ==
    \E c \in Clients :
        \/ \E p \in Providers, em \in NewEmails : OAuthSelect(c, p, 1, em)
        \/ OAuthUpdate(c)
        \/ OAuthInsert(c)
        \/ OAuthGate(c)
        \/ \E em \in NewEmails : RegisterSelect(c, em)
        \/ RegisterInsertUser(c)
        \/ RegisterInsertSub(c)

SpecIdentity == Init /\ [][NextIdentity]_vars

\* registrations of two browsers, with a store that may fail between the
\* two commits of a registration
NextRegister ==
    \E c \in Clients :
        \/ RegisterMissingField(c)
        \/ \E em \in NewEmails \cup {1} : RegisterSelect(c, em)
        \/ RegisterInsertUser(c)
        \/ RegisterInsertSub(c)
        \/ RegisterInsertSubFails(c)
        \/ do_logout(c)
        \/ dashboard(c)

SpecRegister == Init /\ [][NextRegister]_vars

\* the subscription life cycle: an administrator and the seeded users
NextSubs ==
    \E c \in Clients :
        \/ \E em \in {AdminEmail, 1} : OAuthSelect(c, "google", 1, em)
        \/ OAuthUpdate(c)
        \/ OAuthGate(c)
        \/ dashboard(c)
        \/ \E a \in UserActions : MySubSelect(c, a)
        \/ MySubWrite(c)
        \/ \E sid \in 0..(Len(subs) + 1), a \in AdminActions :
              AdminSelect(c, sid, a)
        \/ AdminWrite(c)

SpecSubs == Init /\ [][NextSubs]_vars

\* the list pages of two browsers, the clock and the writer of Events
NextCache ==
    \/ \E c \in Clients :
          \/ \E ep \in Endpoints : ListGet(c, ep)
          \/ ListSelect(c)
          \/ ListSetex(c)
    \/ Tick
    \/ ExternalWrite

SpecCache == Init /\ [][NextCache]_vars

---------------------------------------------------------------------------
(* The subscription gate *)

(* C1: for every user id, validate_subscription returns successfully if    *)
(* and only if a subscription row exists for that user and the row's       *)
(* active flag is true; the gate step of the OAuth callback redirects to   *)
(* the dashboard in exactly that case and fails in every other.            *)
C1_ValidateIffActive ==
    /\ [](\A u \in 0..(Len(users) + 1) :
             validate_subscription(subs, u) = "ok"
             <=> \E i \in 1..Len(subs) : subs[i].uid = u /\ subs[i].active)
    /\ [][\A c \in Clients :
             (req[c].pc = "cb_gate" /\ req'[c].pc = "done")
             => (req'[c].outcome = "redirect_dashboard"
                 <=> \E i \in 1..Len(subs) :
                        subs[i].uid = req[c].uid /\ subs[i].active)]_vars

\* the gate has let one login through and has stopped another on an
\* inactive row
C1_Witness ==
    \E c, d \in Clients :
        /\ req[c].pc = "done" /\ req[c].kind = "callback"
        /\ req[c].outcome = "redirect_dashboard"
        /\ req[d].pc = "done" /\ req[d].kind = "callback"
        /\ req[d].outcome = "InactiveSubscription"
        /\ \E i \in 1..Len(subs) : subs[i].uid = req[d].uid /\ ~ subs[i].active

(* C2: a request to the dashboard is served its content only for a user    *)
(* whose subscription row is present and active.                           *)
C2_DashboardGated ==
    [][\A c \in Clients :
          (/\ req'[c] # req[c]
           /\ req'[c].kind = "dashboard"
           /\ req'[c].outcome = "page")
          => \E i \in 1..Len(subs) :
                subs[i].uid = session[c].user_id /\ subs[i].active]_vars

---------------------------------------------------------------------------
(* The login/register merge *)

C4_OneIdentityPerEmail ==
    \A c \in Clients :
        (/\ req[c].kind = "callback"
         /\ req[c].prev \notin {"none", req[c].provider})
        => /\ Cardinality({i \in 1..Len(users) :
                             users[i].email = req[c].email}) = 1
           /\ req[c].pc \in {"cb_update", "cb_gate", "done"}
           /\ req[c].outcome \in Merged \cup {"none"}
           /\ \A i \in 1..Len(users) :
                 users[i].email = req[c].email
                 => /\ req[c].uid = i
                    /\ session[c].user_id = i
                    /\ session[c].email = req[c].email
                    /\ session[c].role = users[i].role
                    /\ users[i].ids[req[c].prev] # NullId
                    /\ req[c].pc \in {"cb_gate", "done"}
                       => users[i].ids[req[c].provider] # NullId

\* the administrator has logged in through one provider, then the other
C4_Witness ==
    \E c \in Clients :
        /\ req[c].pc = "done" /\ req[c].kind = "callback"
        /\ req[c].prev \notin {"none", req[c].provider}
        /\ session[c].role = "Admin"
        /\ \A p \in Providers : users[req[c].uid].ids[p] # NullId

(* C5: in every reachable state, under any interleaving of concurrent      *)
(* POST /register and OAuth callback requests for the same email, no two   *)
(* user rows have the same email.                                          *)
C5_EmailUnique ==
    \A i, j \in 1..Len(users) : users[i].email = users[j].email => i = j

\* two requests for one email raced: one inserted the row, the INSERT of
\* the other failed
C5_Witness ==
    \E c \in Clients :
        /\ req[c].pc = "done" /\ req[c].outcome = "StoreError"
        /\ \E i \in 1..Len(users) : users[i].email = req[c].email

(* C6: POST /register with an email that already belongs to a user row     *)
(* fails with the 'user already exists' validation error and creates no    *)
(* row: the user rows and the subscription rows are unchanged; and at no   *)
(* point does a subscription row exist whose user id matches no user row.  *)
C6_DuplicateRegisterRejected ==
    /\ [](\A i \in 1..Len(subs) : subs[i].uid \in 1..Len(users))
    /\ [][\A c \in Clients :
             (/\ Ready(c)
              /\ req'[c] # req[c]
              /\ req'[c].kind = "register"
              /\ \E i \in 1..Len(users) : users[i].email = req'[c].email)
             => /\ req'[c].pc = "done"
                /\ req'[c].outcome = "UserExists"
                /\ users' = users
                /\ subs' = subs
                /\ session' = session]_vars

\* a registration was rejected for an email another registration took
C6_Witness ==
    \E c \in Clients :
        /\ req[c].pc = "done" /\ req[c].kind = "register"
        /\ req[c].outcome = "UserExists"
        /\ \E i \in 1..Len(subs) : users[subs[i].uid].email = req[c].email

(* C7: after any sequence of register, OAuth callback, user upgrade/cancel *)
(* and admin activate/deactivate/refund requests every user has at most    *)
(* one subscription row.                                                   *)
C7_OneSubscriptionPerUser ==
    \A i, j \in 1..Len(subs) : subs[i].uid = subs[j].uid => i = j

\* a registration has added a subscription row and the rows have been
\* through an upgrade and an admin action
C7_Witness ==
    /\ Len(subs) > NumSeedUsers
    /\ Len(payments) > 0
    /\ \E i \in 1..Len(subs) : ~ subs[i].active /\ subs[i].level = "Paid"
    /\ \E i \in 1..Len(users) : users[i].ids["google"] # NullId

---------------------------------------------------------------------------
(* The subscription life cycle *)

C9_OnlyAdminActivates ==
    [][\A i \in 1..Len(subs) :
          (~ subs[i].active /\ subs'[i].active)
          => \E c \in Clients :
                /\ req[c].pc = "adm_write"
                /\ req[c].action = "activate"
                /\ req[c].sid = i
                /\ req'[c].pc = "done"]_vars

(* C10: once a subscription's level is Paid it stays Paid: no user         *)
(* upgrade/cancel and no admin activate/deactivate/refund sets the level   *)
(* back to Free; on a Paid row these actions change only the amount and    *)
(* the active flag.                                                        *)
C10_PaidStaysPaid ==
    [][\A i \in 1..Len(subs) :
          subs[i].level = "Paid"
          => /\ subs'[i].level = "Paid"
             /\ subs'[i].uid = subs[i].uid]_vars

\* a Paid row has been refunded
C10_Witness ==
    \E i \in 1..Len(subs) :
        /\ subs[i].level = "Paid" /\ subs[i].amount = 0 /\ ~ subs[i].active
        /\ \E k \in 1..Len(payments) : payments[k].uid = subs[i].uid

(* C11: the admin 'refund' action, applied to a subscription in any state, *)
(* leaves it with amount 0 and active flag false; it leaves the            *)
(* subscription's level, its user, every other subscription row and every  *)
(* payment row unchanged.                                                  *)
C11_RefundZeroInactive ==
    [][\A c \in Clients :
          (/\ req[c].pc = "adm_write"
           /\ req[c].action = "refund"
           /\ req'[c].pc = "done")
          => /\ subs'[req[c].sid].amount = 0
             /\ subs'[req[c].sid].active = FALSE
             /\ subs'[req[c].sid].level = subs[req[c].sid].level
             /\ subs'[req[c].sid].uid = subs[req[c].sid].uid
             /\ Len(subs') = Len(subs)
             /\ \A i \in 1..Len(subs) : i # req[c].sid => subs'[i] = subs[i]
             /\ payments' = payments
             /\ req'[c].outcome = "redirect_admin_subscriptions"]_vars

\* an administrator's request has ended on a row that was upgraded and
\* then refunded, the payment still on the ledger
C11_Witness ==
    \E c \in Clients :
        /\ user_is_admin(session[c])
        /\ req[c].pc = "done" /\ req[c].kind = "admin_subscriptions"
        /\ req[c].outcome = "redirect_admin_subscriptions"
        /\ \E i \in 1..Len(subs) :
              /\ subs[i].level = "Paid" /\ subs[i].amount = 0
              /\ ~ subs[i].active
        /\ Len(payments) = 1 /\ payments[1].amount = 9999

C13_LedgerAppendOnly ==
    /\ payments = <<>>
    /\ [][/\ Len(payments') >= Len(payments)
          /\ \A k \in 1..Len(payments) : payments'[k] = payments[k]
          /\ Len(payments') = Len(payments)
                + Cardinality({c \in Clients :
                                  /\ req[c].pc = "sub_write"
                                  /\ req[c].action = "upgrade"
                                  /\ req'[c].pc = "done"})
          /\ \A k \in (Len(payments) + 1)..Len(payments') :
                \E c \in Clients :
                    /\ req[c].pc = "sub_write"
                    /\ req[c].action = "upgrade"
                    /\ payments'[k] = [uid |-> session[c].user_id,
                                       amount |-> 9999]]_vars

\* two upgrades are on the ledger after an administrator refunded the row
C13_Witness ==
    /\ Len(payments) = 2
    /\ \A k \in 1..Len(payments) : payments[k].amount = 9999
    /\ \E i \in 1..Len(subs) :
          /\ subs[i].uid = payments[1].uid /\ subs[i].uid = payments[2].uid
          /\ subs[i].amount = 0
    /\ \E c \in Clients : req[c].pc = "done"
                           /\ req[c].kind = "admin_subscriptions"

---------------------------------------------------------------------------
(* Errors *)

(* C14: validate_subscription fails with the 'no subscription' error       *)
(* exactly when no subscription row exists for the user, and with the      *)
(* distinct 'inactive subscription' error exactly when a row exists and    *)
(* its active flag is false; the gate step of the callback answers with    *)
(* the one or the other in exactly those cases, never with both.           *)
C14_TwoFoldTaxonomy ==
    /\ [](\A u \in 0..(Len(users) + 1) :
             /\ validate_subscription(subs, u) = "NoSubscription"
                <=> ~ \E i \in 1..Len(subs) : subs[i].uid = u
             /\ validate_subscription(subs, u) = "InactiveSubscription"
                <=> \E i \in 1..Len(subs) :
                       subs[i].uid = u /\ ~ subs[i].active)
    /\ [][\A c \in Clients :
             (req[c].pc = "cb_gate" /\ req'[c].pc = "done")
             => /\ req'[c].outcome = "NoSubscription"
                   <=> ~ \E i \in 1..Len(subs) : subs[i].uid = req[c].uid
                /\ req'[c].outcome = "InactiveSubscription"
                   <=> \E i \in 1..Len(subs) :
                          subs[i].uid = req[c].uid /\ ~ subs[i].active]_vars

\* one login was stopped for a missing row, another for an inactive row
C14_Witness ==
    \E c, d \in Clients :
        /\ req[c].pc = "done" /\ req[c].kind = "callback"
        /\ req[c].outcome = "NoSubscription"
        /\ SubByUser(subs, req[c].uid) = 0
        /\ req[d].pc = "done" /\ req[d].kind = "callback"
        /\ req[d].outcome = "InactiveSubscription"
        /\ ~ subs[SubByUser(subs, req[d].uid)].active

---------------------------------------------------------------------------
(* The session manager *)

(* C15: at every point of any sequence of logins and logouts of a browser, *)
(* user_is_admin() is true if and only if a session exists and its role    *)
(* equals 'Admin': the session changes only by a login_user or logout_user *)
(* call, after login_user(id, email, role) it is admin exactly when role   *)
(* is 'Admin', and after logout_user current_user() returns nothing and    *)
(* user_is_admin() is false.                                               *)
C15_AdminIffAdminSession ==
    /\ [](\A c \in Clients :
             /\ user_is_admin(session[c])
                <=> (session[c].user_id # 0 /\ session[c].role = "Admin")
             /\ (req[c].pc = "done" /\ req[c].kind = "logout")
                => /\ current_user(session[c]) = NoSession
                   /\ ~ user_is_admin(session[c]))
    /\ [][\A c \in Clients :
             session'[c] # session[c]
             => \/ /\ req'[c].kind = "logout"
                   /\ current_user(session'[c]) = NoSession
                   /\ ~ user_is_admin(session'[c])
                \/ /\ req'[c].kind = "callback"
                   /\ current_user(session'[c]) =
                         [user_id |-> req'[c].uid, email |-> req'[c].email,
                          role |-> req'[c].role]
                   /\ user_is_admin(session'[c]) <=> req'[c].role = "Admin"
                \/ /\ req'[c].kind = "register"
                   /\ current_user(session'[c]) =
                         [user_id |-> req'[c].uid, email |-> req'[c].email,
                          role |-> "Reader"]
                   /\ ~ user_is_admin(session'[c])]_vars

\* the administrator and a new Reader have logged in, and the browser has
\* logged out since
C15_Witness ==
    \E c \in Clients :
        /\ \E p \in Providers : users[1].ids[p] # NullId
        /\ Len(users) > NumSeedUsers + 1
        /\ req[c].pc = "done" /\ req[c].kind = "logout"
        /\ session[c] = logout_user
        /\ ~ user_is_admin(session[c])

(* C16: a request to /admin, /admin/users or /admin/subscriptions (GET or  *)
(* POST) from a caller with no session or with a session whose role is not *)
(* 'Admin' fails with the unauthorized-access error, is answered with      *)
(* status 500, and changes no subscription, user or payment row.           *)
C16_AdminOnly ==
    [][\A c \in Clients :
          (/\ Ready(c)
           /\ req'[c] # req[c]
           /\ req'[c].kind \in AdminPages \cup {"admin_subscriptions"}
           /\ ~ (session[c].user_id # 0 /\ session[c].role = "Admin"))
          => /\ req'[c].pc = "done"
             /\ req'[c].outcome = "Unauthorized"
             /\ handle_exceptions(req'[c].outcome) = 500
             /\ users' = users
             /\ subs' = subs
             /\ payments' = payments
             /\ session' = session]_vars

\* a logged-in Reader whose upgrade is on the ledger was refused an admin
\* page
C16_Witness ==
    \E c \in Clients :
        /\ session[c].role = "Reader"
        /\ req[c].pc = "done" /\ req[c].kind \in AdminPages
        /\ req[c].outcome = "Unauthorized"
        /\ \E k \in 1..Len(payments) : payments[k].uid = session[c].user_id

---------------------------------------------------------------------------
(* The cached lists *)

(* C17: each cached list endpoint follows cache-aside.  When its key is    *)
(* present the request ends at once, without a query of the store, and the *)
(* list it renders is the cached one: serialized again it is the cached    *)
(* text.  When the key is absent the request goes on to query the store,   *)
(* takes the rows of the store as they are then, writes their serialized   *)
(* form under its key with TTL 300 (home, events) or 600 (consultants),    *)
(* leaving the other keys alone, and renders those rows.                   *)
C17_CacheAside ==
    [][\A c \in Clients :
          /\ (/\ Ready(c)
              /\ req'[c] # req[c]
              /\ req'[c].kind \in Endpoints)
             => /\ cache' = cache /\ events' = events
                /\ cache[CacheKey(req'[c].kind)].ttl > 0
                   => /\ req'[c].pc = "done"
                      /\ req'[c].outcome = "page"
                      /\ req'[c].hit
                      /\ json_dumps(req'[c].data)
                            = cache[CacheKey(req'[c].kind)].val
                /\ cache[CacheKey(req'[c].kind)].ttl = 0
                   => /\ req'[c].pc = "ls_select"
                      /\ ~ req'[c].hit
          /\ (req[c].pc = "ls_select" /\ req'[c] # req[c])
             => /\ req'[c].pc = "ls_setex"
                /\ req'[c].data =
                      (IF req[c].kind = "list_consultants"
                       THEN SeedConsultants
                       ELSE [i \in 1..Len(events) |->
                               events[Len(events) + 1 - i]])
                /\ cache' = cache /\ events' = events
          /\ (req[c].pc = "ls_setex" /\ req'[c] # req[c])
             => /\ req'[c].pc = "done"
                /\ req'[c].outcome = "page"
                /\ ~ req'[c].hit
                /\ req'[c].data = req[c].data
                /\ cache'[CacheKey(req[c].kind)].val = json_dumps(req[c].data)
                /\ cache'[CacheKey(req[c].kind)].ttl =
                      (IF req[c].kind = "list_consultants" THEN 600 ELSE 300)
                /\ \A k \in CacheKeys :
                      k # CacheKey(req[c].kind) => cache'[k] = cache[k]
                /\ events' = events]_vars

\* one browser was served the event list from the cache, the other has
\* just filled the consultants key
C17_Witness ==
    \E c, d \in Clients :
        /\ req[c].pc = "done" /\ req[c].kind = "list_events" /\ req[c].hit
        /\ req[c].data # <<>>
        /\ req[d].pc = "done" /\ req[d].kind = "list_consultants"
        /\ ~ req[d].hit
        /\ cache["consultants_list"].val = json_dumps(req[d].data)
        /\ cache["consultants_list"].ttl = 600

(* C18: no write path invalidates or rewrites a cache key: a key changes   *)
(* only when a list request that missed writes it and when time passes,    *)
(* and a write of the store leaves every key alone.  A list served from    *)
(* the cache differs from the store only while the TTL has not elapsed: it *)
(* stopped being what the store holds at most 300 s (events) before it is  *)
(* served.  A request that finds the key expired reads the store afresh.   *)
C18_StaleWithinTtl ==
    [][/\ \A k \in CacheKeys :
             cache'[k] # cache[k]
             => \/ /\ changed' = changed /\ events' = events
                   /\ \E c \in Clients :
                         /\ req[c].pc = "ls_setex"
                         /\ req'[c].pc = "done"
                         /\ k = CacheKey(req[c].kind)
                \/ /\ req' = req /\ events' = events
                   /\ cache[k].ttl > 0
                   /\ cache'[k].ttl < cache[k].ttl
                   /\ cache'[k].ttl > 0 => cache'[k].val = cache[k].val
       /\ events' # events => cache' = cache
       /\ \A c \in Clients :
             /\ (/\ Ready(c)
                 /\ req'[c] # req[c]
                 /\ req'[c].kind \in {"home", "list_events"}
                 /\ req'[c].pc = "done"
                 /\ req'[c].hit
                 /\ \E i \in 1..Len(req'[c].data) :
                       /\ req'[c].data[i].EventID.val = 1
                       /\ req'[c].data[i].Title # events[1].Title)
                => changed <= 300
             /\ (/\ Ready(c)
                 /\ req'[c] # req[c]
                 /\ req'[c].kind \in Endpoints
                 /\ cache[CacheKey(req'[c].kind)] = NoEntry)
                => req'[c].pc = "ls_select"
             /\ (req[c].pc = "ls_select" /\ req'[c] # req[c])
                => \A i \in 1..Len(req'[c].data) :
                      req'[c].kind # "list_consultants"
                      => req'[c].data[i] =
                            events[req'[c].data[i].EventID.val]]_vars

(* C19: the list an endpoint obtains from the cached value has the same    *)
(* structural shape as the list a fresh store query gives it: as many      *)
(* rows, and in every row the same field names and the same type for every *)
(* field, the date/time fields of events included.                         *)
C19_SameShape ==
    \A c \in Clients :
        (req[c].pc = "done" /\ req[c].kind \in Endpoints /\ req[c].hit)
        => LET fresh == Prepare(req[c].kind, Query(req[c].kind, events))
           IN  /\ Len(req[c].data) = Len(fresh)
               /\ \A i \in 1..Len(fresh) :
                     /\ DOMAIN req[c].data[i] = DOMAIN fresh[i]
                     /\ \A f \in DOMAIN fresh[i] :
                           req[c].data[i][f].type = fresh[i][f].type

---------------------------------------------------------------------------
(* Concurrent writers *)

(* C20: a user's upgrade or cancel and an administrator's activate,        *)
(* deactivate or refund of the same subscription are not coordinated.  A   *)
(* request that has read the row can always go on to write it, whatever    *)
(* other request is in flight; its write succeeds and sets the fields of   *)
(* its action to the action's values on the row as it is then, keeping the *)
(* other fields of what was committed before: after any interleaving each  *)
(* field has the value of the last committed write that set it.            *)
C20_LastWriteWins ==
    /\ [](\A c \in Clients :
             /\ req[c].pc = "adm_write" => ENABLED AdminWrite(c)
             /\ (/\ req[c].pc = "sub_write"
                 /\ req[c].action = "upgrade" => Len(payments) < MaxPayments)
                => ENABLED MySubWrite(c))
    /\ [][\A c \in Clients :
             /\ (req[c].pc = "sub_write" /\ req'[c] # req[c])
                => /\ req'[c].pc = "done"
                   /\ req'[c].outcome = "redirect_my_subscription"
                   /\ subs' = [subs EXCEPT ![req[c].sid] =
                         IF req[c].action = "upgrade"
                         THEN [level |-> "Paid", amount |-> 9999,
                               active |-> TRUE, uid |-> @.uid]
                         ELSE IF req[c].action = "cancel"
                         THEN [level |-> @.level, amount |-> @.amount,
                               active |-> FALSE, uid |-> @.uid]
                         ELSE @]
             /\ (/\ req[c].pc = "adm_write"
                 /\ req[c].action \in {"activate", "deactivate", "refund"}
                 /\ req'[c] # req[c])
                => /\ req'[c].pc = "done"
                   /\ req'[c].outcome = "redirect_admin_subscriptions"
                   /\ subs' = [subs EXCEPT ![req[c].sid] =
                         IF req[c].action = "activate"
                         THEN [level |-> @.level, amount |-> @.amount,
                               active |-> TRUE, uid |-> @.uid]
                         ELSE IF req[c].action = "deactivate"
                         THEN [level |-> @.level, amount |-> @.amount,
                               active |-> FALSE, uid |-> @.uid]
                         ELSE [level |-> @.level, amount |-> 0,
                               active |-> FALSE, uid |-> @.uid]]]_vars

\* a user's upgrade and an administrator's refund have both read the same
\* row, which an earlier upgrade and cancel have left Paid and inactive,
\* and neither has written yet
C20_Witness ==
    \E c, d \in Clients :
        /\ req[c].pc = "sub_write" /\ req[c].action = "upgrade"
        /\ req[d].pc = "adm_write" /\ req[d].action = "refund"
        /\ req[d].sid = req[c].sid
        /\ subs[req[c].sid].level = "Paid" /\ ~ subs[req[c].sid].active
        /\ Len(payments) = 1

---------------------------------------------------------------------------
(* Registration and first login *)

(* C21: every user row created by POST /register has exactly one           *)
(* subscription row (Free, amount 0, active) once the request has ended,   *)
(* whether it succeeded or failed part-way.                                *)
C21_RegisteredUserHasSub ==
    \A c \in Clients :
        (/\ req[c].pc = "done"
         /\ req[c].kind = "register"
         /\ req[c].uid \in 1..Len(users)
         /\ users[req[c].uid].email = req[c].email)
        => /\ Cardinality({i \in 1..Len(subs) : subs[i].uid = req[c].uid}) = 1
           /\ \A i \in 1..Len(subs) :
                 subs[i].uid = req[c].uid
                 => subs[i] = [uid |-> req[c].uid, level |-> "Free",
                               amount |-> 0, active |-> TRUE]

(* C22: in the OAuth callback the session is established before the        *)
(* subscription gate runs and is not cleared when the gate fails: while    *)
(* the gate is pending and after a callback that ended in the              *)
(* no-subscription or inactive-subscription error, current_user() returns  *)
(* the identity of that user; the redirect to the dashboard is issued only *)
(* when the gate succeeds.                                                 *)
C22_SessionBeforeGate ==
    /\ [](\A c \in Clients :
             (/\ req[c].kind = "callback"
              /\ \/ req[c].pc = "cb_gate"
                 \/ /\ req[c].pc = "done"
                    /\ req[c].outcome \in {"NoSubscription",
                                           "InactiveSubscription"})
             => /\ session[c].user_id # 0
                /\ current_user(session[c]).user_id = req[c].uid
                /\ current_user(session[c]).email = req[c].email
                /\ current_user(session[c]).role = users[req[c].uid].role)
    /\ [][\A c \in Clients :
             (req[c].pc = "cb_gate" /\ req'[c] # req[c])
             => /\ session' = session
                /\ req'[c].pc = "done"
                /\ req'[c].outcome = "redirect_dashboard"
                   => \E i \in 1..Len(subs) :
                         subs[i].uid = req[c].uid /\ subs[i].active
                /\ req'[c].outcome # "redirect_dashboard"
                   => /\ req'[c].outcome \in {"NoSubscription",
                                              "InactiveSubscription"}
                      /\ ~ \E i \in 1..Len(subs) :
                            subs[i].uid = req[c].uid /\ subs[i].active]_vars

\* a login was stopped at the gate on a cancelled subscription and the
\* browser holds the session of that user
C22_Witness ==
    \E c \in Clients :
        /\ req[c].pc = "done" /\ req[c].kind = "callback"
        /\ req[c].outcome = "InactiveSubscription"
        /\ current_user(session[c]) =
              [user_id |-> req[c].uid, email |-> req[c].email,
               role |-> "Reader"]
        /\ \E i \in 1..Len(subs) :
              subs[i].uid = session[c].user_id /\ ~ subs[i].active

(* C23: an OAuth callback for an email that has no user row creates a      *)
(* user row with role Reader and the provider's external id set, and       *)
(* creates no subscription row; that callback, and every later callback    *)
(* for the same email, ends in the no-subscription error and not in the    *)
(* redirect to the dashboard for as long as the user has no subscription   *)
(* row.                                                                    *)
C23_FirstLoginHasNoSub ==
    /\ [](\A c \in Clients :
             (/\ req[c].kind = "callback"
              /\ req[c].pc = "done"
              /\ req[c].uid # 0
              /\ req[c].outcome # "StoreError"
              /\ ~ \E i \in 1..Len(subs) : subs[i].uid = req[c].uid)
             => req[c].outcome = "NoSubscription")
    /\ [][\A c \in Clients :
             /\ (req[c].pc = "cb_insert" /\ req'[c].pc = "cb_gate")
                => /\ Len(users') = Len(users) + 1
                   /\ \A i \in 1..Len(users) : users'[i] = users[i]
                   /\ users'[Len(users')] =
                         [email |-> req[c].email, role |-> "Reader",
                          ids |-> [p \in Providers |->
                                     IF p = req[c].provider THEN req[c].oid
                                     ELSE 0]]
                   /\ req'[c].uid = Len(users')
                   /\ subs' = subs
                   /\ ~ \E i \in 1..Len(subs') : subs'[i].uid = req'[c].uid
             /\ (/\ req[c].pc = "cb_gate"
                 /\ req'[c] # req[c]
                 /\ ~ \E i \in 1..Len(subs) : subs[i].uid = req[c].uid)
                => /\ req'[c].pc = "done"
                   /\ req'[c].outcome = "NoSubscription"
                   /\ subs' = subs]_vars

\* the user a first login created has come back through the other
\* provider and was stopped again: the row has no subscription
C23_Witness ==
    \E c \in Clients :
        /\ req[c].pc = "done" /\ req[c].kind = "callback"
        /\ req[c].outcome = "NoSubscription"
        /\ req[c].prev \notin {"none", req[c].provider}
        /\ req[c].uid > NumSeedUsers + 1
        /\ users[req[c].uid].role = "Reader"
        /\ \A p \in Providers : users[req[c].uid].ids[p] # NullId
        /\ ~ \E i \in 1..Len(subs) : subs[i].uid = req[c].uid

====
